---- MODULE Spec2Model ----
(***************************************************************************)
(* A model of gcs_gallery_generator.py: the listing of a bucket's image    *)
(* objects (GCSImageGallery.get_image_list), the rendering of the static   *)
(* gallery page (GCSImageGallery.generate_html_gallery), the control flow  *)
(* of main, and the script embedded in the generated page.                 *)
(*                                                                         *)
(* Strings are sequences of one-character strings, so that suffix tests,   *)
(* case folding, comparison, searching and escaping are computed character *)
(* by character, as the Python and JavaScript runtimes compute them.       *)
(***************************************************************************)
EXTENDS Integers, Sequences, FiniteSets, TLC

(***************************************************************************)
(* Bounds of the model.                                                    *)
(***************************************************************************)
\* The number of blobs the bucket listing yields in one run.
MaxBlobs == 2
\* The largest --per-page argument a run is given.
MaxPerPage == 3
\* The largest number of images of the galleries whose page is opened.
MaxImages == 7

(***************************************************************************)
(* Characters and strings.                                                 *)
(***************************************************************************)
\* The printable ASCII characters in code-point order, 32 (space) .. 126 (~).
\* Code point 96 (the grave accent) cannot be written in a string of this
\* language; the entry "grave" stands in its place and occurs in no input.
AsciiTable ==
  << " ", "!", "\"", "#", "$", "%", "&", "'", "(", ")", "*", "+", ",", "-", ".", "/",
     "0", "1", "2", "3", "4", "5", "6", "7", "8", "9", ":", ";", "<", "=", ">", "?",
     "@", "A", "B", "C", "D", "E", "F", "G", "H", "I", "J", "K", "L", "M", "N", "O",
     "P", "Q", "R", "S", "T", "U", "V", "W", "X", "Y", "Z", "[", "\\", "]", "^", "_",
     "grave", "a", "b", "c", "d", "e", "f", "g", "h", "i", "j", "k", "l", "m", "n", "o",
     "p", "q", "r", "s", "t", "u", "v", "w", "x", "y", "z", "{", "|", "}", "~" >>

Chars == { AsciiTable[i] : i \in 1..Len(AsciiTable) }

\* ord(c): the code point of a character.
OrdTable == [ c \in Chars |-> 31 + (CHOOSE i \in 1..Len(AsciiTable) : AsciiTable[i] = c) ]

Ord(c) == OrdTable[c]

\* chr(n) for a printable code point.
Chr(n) == AsciiTable[n - 31]

IsUpper(c) == Ord(c) >= 65 /\ Ord(c) <= 90

IsDigit(c) == Ord(c) >= 48 /\ Ord(c) <= 57

\* One character of str.lower() / String.prototype.toLowerCase().
LowerChar(c) == IF IsUpper(c) THEN Chr(Ord(c) + 32) ELSE c

\* str.lower() / toLowerCase().
Lower(s) == [ i \in 1..Len(s) |-> LowerChar(s[i]) ]

\* str.endswith(suffix).
EndsWith(s, suffix) ==
  /\ Len(suffix) <= Len(s)
  /\ SubSeq(s, Len(s) - Len(suffix) + 1, Len(s)) = suffix

\* True iff sub occurs in s at 1-based position i.
OccursAt(s, sub, i) ==
  /\ i >= 1
  /\ i + Len(sub) - 1 <= Len(s)
  /\ SubSeq(s, i, i + Len(sub) - 1) = sub

\* String.prototype.includes(sub).
Includes(s, sub) == \E i \in 1..(Len(s) + 1) : OccursAt(s, sub, i)

\* Python's (and JavaScript's) string order: lexicographic by code point, a
\* proper prefix before the longer string.
StrLess(a, b) ==
  \E i \in 1..(Len(a) + 1) :
    /\ i <= Len(b)
    /\ SubSeq(a, 1, i - 1) = SubSeq(b, 1, i - 1)
    /\ (i = Len(a) + 1 \/ Ord(a[i]) < Ord(b[i]))

\* os.path.basename(name): what follows the last '/'.
Basename(name) ==
  LET slashes == { i \in 1..Len(name) : name[i] = "/" }
      last == IF slashes = {} THEN 0
              ELSE CHOOSE i \in slashes : \A j \in slashes : j <= i
  IN SubSeq(name, last + 1, Len(name))

\* The concatenation of a sequence of strings.
RECURSIVE Concat(_)
Concat(ss) == IF ss = << >> THEN << >> ELSE Head(ss) \o Concat(Tail(ss))

\* Python's None (and JavaScript's null): a value that is no string.
None == << "None" >>

(***************************************************************************)
(* get_image_list: the extension test.                                     *)
(***************************************************************************)
image_extensions ==
  { << ".", "j", "p", "g" >>, << ".", "j", "p", "e", "g" >>, << ".", "p", "n", "g" >>, << ".", "g", "i", "f" >>,
    << ".", "b", "m", "p" >>, << ".", "w", "e", "b", "p" >>, << ".", "t", "i", "f", "f" >>, << ".", "s", "v", "g" >> }

\* A bug the extension test could have: the name is not lower-cased.
IsImageNameCaseSensitive(name) == \E ext \in image_extensions : EndsWith(name, ext)

\* any(blob.name.lower().endswith(ext) for ext in image_extensions)
IsImageName(name) == \E ext \in image_extensions : EndsWith(Lower(name), ext)

(***************************************************************************)
(* get_image_list: the date parsed from the filename.                      *)
(***************************************************************************)
DigitVal(c) == Ord(c) - 48

\* int(s) for a string of decimal digits.
RECURSIVE ParseInt(_)
ParseInt(s) ==
  IF s = << >> THEN 0
  ELSE 10 * ParseInt(SubSeq(s, 1, Len(s) - 1)) + DigitVal(s[Len(s)])

AllDigits(s) == \A i \in 1..Len(s) : IsDigit(s[i])

\* The positions at which r'DT(\d{8})' matches.
DateMatches(filename) ==
  { i \in 1..Len(filename) :
      /\ OccursAt(filename, << "D", "T" >>, i)
      /\ i + 9 <= Len(filename)
      /\ AllDigits(SubSeq(filename, i + 2, i + 9)) }

\* A bug the search could have: the last match is taken, not the first.
DateStrLastMatch(filename) ==
  LET ms == DateMatches(filename)
  IN IF ms = {} THEN None
     ELSE LET i == CHOOSE k \in ms : \A j \in ms : j <= k
          IN SubSeq(filename, i + 2, i + 9)

\* re.search(r'DT(\d{8})', filename), then group(1): the leftmost match.
DateStr(filename) ==
  LET ms == DateMatches(filename)
  IN IF ms = {} THEN None
     ELSE LET i == CHOOSE k \in ms : \A j \in ms : k <= j
          IN SubSeq(filename, i + 2, i + 9)

IsLeapYear(y) == (y % 4 = 0 /\ y % 100 # 0) \/ y % 400 = 0

DaysInMonth(y, m) ==
  IF m = 2 THEN (IF IsLeapYear(y) THEN 29 ELSE 28)
  ELSE IF m \in {4, 6, 9, 11} THEN 30 ELSE 31

\* Whether datetime.strptime(date_str, '%Y%m%d') returns (True) or raises
\* ValueError (False), for 8 digits: the year is 1..9999, the month 01..12, the
\* day 01..31 and a day of that month.
StrptimeOk(date_str) ==
  LET y == ParseInt(SubSeq(date_str, 1, 4))
      m == ParseInt(SubSeq(date_str, 5, 6))
      d == ParseInt(SubSeq(date_str, 7, 8))
  IN /\ y >= 1
     /\ m >= 1 /\ m <= 12
     /\ d >= 1 /\ d <= DaysInMonth(y, m)

\* The month names strftime('%B') gives.
MonthName ==
  << << "J", "a", "n", "u", "a", "r", "y" >>,
     << "F", "e", "b", "r", "u", "a", "r", "y" >>,
     << "M", "a", "r", "c", "h" >>,
     << "A", "p", "r", "i", "l" >>,
     << "M", "a", "y" >>,
     << "J", "u", "n", "e" >>,
     << "J", "u", "l", "y" >>,
     << "A", "u", "g", "u", "s", "t" >>,
     << "S", "e", "p", "t", "e", "m", "b", "e", "r" >>,
     << "O", "c", "t", "o", "b", "e", "r" >>,
     << "N", "o", "v", "e", "m", "b", "e", "r" >>,
     << "D", "e", "c", "e", "m", "b", "e", "r" >> >>

\* '%02d' of a number below 100.
Pad2(n) == << Chr(48 + (n \div 10)), Chr(48 + (n % 10)) >>

\* date_obj.strftime('%d %B') of the date that strptime built.
Strftime(date_str) ==
  Pad2(ParseInt(SubSeq(date_str, 7, 8))) \o << " " >>
    \o MonthName[ParseInt(SubSeq(date_str, 5, 6))]

UnknownDate == << "U", "n", "k", "n", "o", "w", "n", " ", "D", "a", "t", "e" >>

\* The date_display of a record, from its date_str.
DateDisplay(date_str) ==
  IF date_str = None THEN UnknownDate
  ELSE IF StrptimeOk(date_str) THEN Strftime(date_str)
  ELSE date_str

(***************************************************************************)
(* get_image_list: the access URL.                                         *)
(***************************************************************************)
\* self.bucket_name of the run.
bucket_name == << "b", "k" >>

StorageHost == << "h", "t", "t", "p", "s", ":", "/", "/", "s", "t", "o", "r", "a", "g", "e", ".", "g", "o", "o", "g", "l", "e", "a", "p", "i", "s", ".", "c", "o", "m", "/" >>

\* f"https://storage.googleapis.com/{self.bucket_name}/{blob.name}"
FallbackUrl(name) == StorageHost \o bucket_name \o << "/" >> \o name

\* The percent-encoding of the object name in a signed URL's path, for the
\* characters of the inputs that are not URL-safe.
QuoteChar(c) ==
  IF c = "\"" THEN << "%", "2", "2" >>
  ELSE IF c = "\\" THEN << "%", "5", "C" >>
  ELSE << c >>

\* What blob.generate_signed_url returns when it returns: the object's URL with
\* the signature in its query string.
SignedUrl(name) ==
  StorageHost \o bucket_name \o << "/" >>
    \o Concat([ i \in 1..Len(name) |-> QuoteChar(name[i]) ])
    \o << "?", "X", "-", "G", "o", "o", "g", "-", "S", "i", "g", "n", "a", "t", "u", "r", "e", "=", "5", "f" >>

(***************************************************************************)
(* get_image_list: the record of an image and the sort.                    *)
(***************************************************************************)
\* A bug the fallback could have: the URL is left empty when signing fails.
image_info_no_fallback(blob, signed) ==
  LET filename == Basename(blob.name)
  IN [ name |-> blob.name,
       filename |-> filename,
       public_url |-> IF signed THEN SignedUrl(blob.name) ELSE << >>,
       size |-> blob.size,
       content_type |-> blob.content_type,
       date_str |-> DateStr(filename),
       date_display |-> DateDisplay(DateStr(filename)) ]

\* image_info of one blob; signed is whether blob.generate_signed_url returned
\* (TRUE) or raised an Exception (FALSE).  The fields created, updated and
\* md5_hash are copied from the blob and read by nothing modelled here.
image_info(blob, signed) ==
  LET filename == Basename(blob.name)
  IN [ name |-> blob.name,
       filename |-> filename,
       public_url |-> IF signed THEN SignedUrl(blob.name) ELSE FallbackUrl(blob.name),
       size |-> blob.size,
       content_type |-> blob.content_type,
       date_str |-> DateStr(filename),
       date_display |-> DateDisplay(DateStr(filename)) ]

\* x placed into a list sorted by filename, after every record whose filename
\* is not greater: list.sort is stable.
RECURSIVE InsertByFilename(_, _)
InsertByFilename(sorted, x) ==
  IF sorted = << >> THEN << x >>
  ELSE IF StrLess(x.filename, Head(sorted).filename) THEN << x >> \o sorted
  ELSE << Head(sorted) >> \o InsertByFilename(Tail(sorted), x)

RECURSIVE SortFrom(_, _)
SortFrom(sorted, rest) ==
  IF rest = << >> THEN sorted
  ELSE SortFrom(InsertByFilename(sorted, Head(rest)), Tail(rest))

\* A bug the sort could have: the key is the full object name.
RECURSIVE InsertByName(_, _)
InsertByName(sorted, x) ==
  IF sorted = << >> THEN << x >>
  ELSE IF StrLess(x.name, Head(sorted).name) THEN << x >> \o sorted
  ELSE << Head(sorted) >> \o InsertByName(Tail(sorted), x)

RECURSIVE SortByNameFrom(_, _)
SortByNameFrom(sorted, rest) ==
  IF rest = << >> THEN sorted
  ELSE SortByNameFrom(InsertByName(sorted, Head(rest)), Tail(rest))

SortByName(records) == SortByNameFrom(<< >>, records)

\* images.sort(key=lambda x: x['filename'])
SortByFilename(records) == SortFrom(<< >>, records)

(***************************************************************************)
(* The objects a bucket listing can yield.                                 *)
(***************************************************************************)
Bucket ==
  { [name |-> << "b", ".", "j", "p", "g" >>, size |-> 1024, content_type |-> "image/jpeg"],
    [name |-> << "d", "/", "a", ".", "J", "P", "G" >>, size |-> 2048, content_type |-> "image/jpeg"],
    [name |-> << "e", "/", "a", ".", "J", "P", "G" >>, size |-> 3072, content_type |-> "image/jpeg"],
    [name |-> << "a", ".", "j", "p", "e", "g" >>, size |-> 4096, content_type |-> "image/jpeg"],
    [name |-> << "c", ".", "P", "n", "g" >>, size |-> 5120, content_type |-> "image/png"],
    [name |-> << "D", "T", "2", "0", "2", "5", "0", "8", "0", "1", "_", "x", ".", "g", "i", "f" >>, size |-> 6144, content_type |-> "image/gif"],
    [name |-> << "B", ".", "b", "m", "p" >>, size |-> 7168, content_type |-> "None"],
    [name |-> << "a", ".", "w", "e", "b", "p" >>, size |-> 8192, content_type |-> "image/webp"],
    [name |-> << "a", ".", "t", "i", "f", "f" >>, size |-> 9216, content_type |-> "image/tiff"],
    [name |-> << "a", "\"", "b", ".", "s", "v", "g" >>, size |-> 10240, content_type |-> "image/svg+xml"],
    [name |-> << "a", ".", "t", "x", "t" >>, size |-> 11264, content_type |-> "text/plain"],
    [name |-> << "a", ".", "j", "p", "g", "x" >>, size |-> 12288, content_type |-> "None"],
    [name |-> << "j", "p", "g" >>, size |-> 13312, content_type |-> "None"],
    [name |-> << "d", ".", "p", "n", "g", "/" >>, size |-> 14336, content_type |-> "None"] }

\* The 8-digit strings the dated names are made of: years, months and days
\* in and out of range, leap and common years.
DateDigits ==
  { y \o m \o d :
      y \in { << "0", "0", "0", "0" >>, << "0", "0", "0", "1" >>, << "1", "9", "0", "0" >>,
              << "2", "0", "0", "0" >>, << "2", "0", "2", "4" >>, << "2", "0", "2", "5" >> },
      m \in { << "0", "0" >>, << "0", "1" >>, << "0", "2" >>, << "0", "4" >>, << "0", "8" >>, << "1", "2" >>, << "1", "3" >> },
      d \in { << "0", "0" >>, << "0", "1" >>, << "2", "8" >>, << "2", "9" >>, << "3", "0" >>, << "3", "1" >>, << "3", "2" >> } }

\* The object names made of 8 digits: the DT token at the start of the
\* filename, inside it, after a DT token that is a digit short, before a
\* second token, with a ninth digit, in lower case, a digit short, without
\* its T, and in the folder instead of the filename.
DatedNames(d) ==
  { << "D", "T" >> \o d \o << "_", "x", ".", "j", "p", "g" >>,
    << "i", "m", "g", "_" >> \o << "D", "T" >> \o d \o << ".", "j", "p", "g" >>,
    << "D", "T" >> \o SubSeq(d, 1, 7) \o << "_", "D", "T" >> \o d \o << ".", "j", "p", "g" >>,
    << "D", "T" >> \o d \o << "_", "D", "T", "2", "0", "2", "5", "0", "8", "0", "1", ".", "j", "p", "g" >>,
    << "D", "T" >> \o d \o << "9", ".", "j", "p", "g" >>,
    << "d", "t" >> \o d \o << ".", "j", "p", "g" >>,
    << "D", "T" >> \o SubSeq(d, 1, 7) \o << ".", "j", "p", "g" >>,
    << "D" >> \o d \o << ".", "j", "p", "g" >>,
    << "D", "T" >> \o d \o << "/", "x", ".", "j", "p", "g" >> }

\* A bucket of images with dated names.
DateBucket ==
  { [ name |-> n, size |-> 2048, content_type |-> "image/jpeg" ] :
      n \in UNION { DatedNames(d) : d \in DateDigits } }

(***************************************************************************)
(* generate_html_gallery: the page count and the data embedded in the page.*)
(***************************************************************************)
\* Python's a // b for b # 0: the floor of the quotient.
FloorDiv(a, b) == IF b > 0 THEN a \div b ELSE (0 - a) \div (0 - b)

\* A bug the page count could have: the quotient is not rounded up.
TotalPagesRoundedDown(n, images_per_page) == FloorDiv(n, images_per_page)

\* total_pages = (len(images) + images_per_page - 1) // images_per_page
TotalPages(n, images_per_page) == FloorDiv(n + images_per_page - 1, images_per_page)

\* s.replace(c, r): every occurrence of the character c replaced by r.
ReplaceChar(s, c, r) ==
  Concat([ i \in 1..Len(s) |-> IF s[i] = c THEN r ELSE << s[i] >> ])

\* s.replace('\\', '\\\\').replace('"', '\\"')
EscapeForJson(s) ==
  ReplaceChar(ReplaceChar(s, "\\", << "\\", "\\" >>), "\"", << "\\", "\"" >>)

\* x or default, for a string x that may be None or empty.
OrElse(x, default) == IF x = None \/ x = << >> THEN default ELSE x

\* The same for a content type, which the model holds as an atom.
OrElseType(x, default) == IF x = "None" \/ x = "" THEN default ELSE x

\* One entry of images_for_js.  The field created is left out with the
\* fields of the record it is read from.
image_for_js(img) ==
  [ filename |-> IF img.filename # << >> THEN EscapeForJson(img.filename) ELSE << >>,
    public_url |-> IF OrElse(img.public_url, << >>) # << >>
                   THEN EscapeForJson(img.public_url)
                   ELSE << >>,
    size |-> img.size,
    content_type |-> OrElseType(img.content_type, "image/unknown"),
    date_str |-> OrElse(img.date_str, << >>),
    date_display |-> OrElse(img.date_display, UnknownDate) ]

\* A bug the loop could have: the records are emitted in reverse.
images_for_js_reversed(images) ==
  [ i \in 1..Len(images) |-> image_for_js(images[Len(images) + 1 - i]) ]

images_for_js(images) == [ i \in 1..Len(images) |-> image_for_js(images[i]) ]

\* json.dumps of one character of a string (ensure_ascii, printable input).
JsonChar(c) ==
  IF c = "\"" THEN << "\\", "\"" >>
  ELSE IF c = "\\" THEN << "\\", "\\" >>
  ELSE << c >>

\* json.dumps of a string: the literal, with its quotes.
JsonString(s) ==
  << "\"" >> \o Concat([ i \in 1..Len(s) |-> JsonChar(s[i]) ]) \o << "\"" >>

\* json.dumps of one entry: every string a literal; numbers as they are.
JsonObject(e) ==
  [ filename |-> JsonString(e.filename),
    public_url |-> JsonString(e.public_url),
    size |-> e.size,
    content_type |-> e.content_type,
    date_str |-> JsonString(e.date_str),
    date_display |-> JsonString(e.date_display) ]

\* json.dumps(images_for_js): the array, entry by entry.
JsonDumps(entries) == [ i \in 1..Len(entries) |-> JsonObject(entries[i]) ]

\* The page that template.render returns: the values substituted into the
\* template.  resultCount is the text 'Showing <shown> of <total>'.
RenderPage(images, images_per_page) ==
  [ total_images |-> Len(images),
    images_per_page |-> images_per_page,
    total_pages |-> TotalPages(Len(images), images_per_page),
    images_json |-> JsonDumps(images_for_js(images)) ]

\* No output file.
NoFile == [ total_images |-> 0, images_per_page |-> 0, total_pages |-> 0,
            images_json |-> << "no file" >> ]

\* The body of a string literal read by the page's script.  The only escapes
\* json.dumps emits for printable input are \" and \\, each standing for the
\* character escaped.
RECURSIVE Unescape(_)
Unescape(body) ==
  IF body = << >> THEN << >>
  ELSE IF Head(body) = "\\" /\ Len(body) >= 2
       THEN << body[2] >> \o Unescape(SubSeq(body, 3, Len(body)))
       ELSE << Head(body) >> \o Unescape(Tail(body))

\* The value of a string literal.
JsString(literal) == Unescape(SubSeq(literal, 2, Len(literal) - 1))

\* The value of one entry of the imageData literal.
JsObject(o) ==
  [ filename |-> JsString(o.filename),
    public_url |-> JsString(o.public_url),
    size |-> o.size,
    content_type |-> o.content_type,
    date_str |-> JsString(o.date_str),
    date_display |-> JsString(o.date_display) ]

\* const imageData = {{ images_json|safe }};
ParseImageData(images_json) == [ i \in 1..Len(images_json) |-> JsObject(images_json[i]) ]

(***************************************************************************)
(* The state of a run and of the page it writes.                           *)
(***************************************************************************)
VARIABLES
  pc,             \* where the run is: start, list, returned, render, write, exit, page
  perPage,        \* images_per_page of the call of generate_html_gallery
  listed,         \* the blobs the listing has yielded so far
  signRaised,     \* the names of the blobs whose generate_signed_url raised
  built,          \* get_image_list's local list, images, before the sort
  images,         \* main's images: what get_image_list returned
  error,          \* the step whose exception main caught; "none" if none
  exitStatus,     \* the exit status of the process; -1 while it runs
  html_content,   \* what template.render returned
  fileOpens,      \* how many times the output file was opened for writing
  fileWrites,     \* how many times the page was written to it
  fileContent,    \* the page in the output file
  imageData,      \* the page's script: const imageData
  currentPage,    \* the page's script: let currentPage
  filteredImages, \* the page's script: let filteredImages
  dom,            \* the page's elements that the script reads and writes
  handler,        \* the page's script: what ran last (load, filter, change)
  direction       \* the argument of the last changePage call; 0 before any

vars == << pc, perPage, listed, signRaised, built, images, error, exitStatus,
           html_content, fileOpens, fileWrites, fileContent,
           imageData, currentPage, filteredImages, dom, handler, direction >>

pageVars == << imageData, currentPage, filteredImages, dom, handler, direction >>

\* The page's elements before any page is open.
NoDom ==
  [ searchInput |-> << >>, dateFilter |-> << >>, dateOptions |-> << >>,
    gallery |-> << >>, noResults |-> FALSE,
    currentPageText |-> 0, totalPagesText |-> 0,
    prevDisabled |-> FALSE, nextDisabled |-> FALSE,
    resultCount |-> << >> ]

\* The --per-page arguments of the runs: argparse's type=int takes any integer.
PerPageArgs == (0 - 1)..MaxPerPage

Init ==
  /\ pc = "start"
  /\ perPage = 0
  /\ listed = << >>
  /\ signRaised = {}
  /\ built = << >>
  /\ images = << >>
  /\ error = "none"
  /\ exitStatus = 0 - 1
  /\ html_content = NoFile
  /\ fileOpens = 0
  /\ fileWrites = 0
  /\ fileContent = NoFile
  /\ imageData = << >>
  /\ currentPage = 1
  /\ filteredImages = << >>
  /\ dom = NoDom
  /\ handler = "none"
  /\ direction = 0

(***************************************************************************)
(* main.                                                                   *)
(***************************************************************************)
\* except Exception as e: print(f"Error: {e}"); sys.exit(1)
ExitOnException(step) ==
  /\ error' = step
  /\ pc' = "exit"
  /\ exitStatus' = 1

\* gallery = GCSImageGallery(args.project, args.bucket, args.folder)
CreateGallery ==
  /\ pc = "start"
  /\ pc' = "list"
  /\ UNCHANGED << perPage, listed, signRaised, built, images, error, exitStatus,
                  html_content, fileOpens, fileWrites, fileContent >>
  /\ UNCHANGED pageVars

\* storage.Client(project=project_id) raises.
CreateGalleryRaises ==
  /\ pc = "start"
  /\ ExitOnException("client")
  /\ UNCHANGED << perPage, listed, signRaised, built, images,
                  html_content, fileOpens, fileWrites, fileContent >>
  /\ UNCHANGED pageVars

\* The blobs the listing can yield next: an object is listed once.
Unlisted(bucket) == { b \in bucket : \A i \in 1..Len(listed) : listed[i] # b }

\* One turn of the loop for a blob that is no image.
SkipBlob(bucket, limit) ==
  /\ pc = "list"
  /\ Len(listed) < limit
  /\ \E blob \in Unlisted(bucket) :
       /\ ~IsImageName(blob.name)
       /\ listed' = Append(listed, blob)
  /\ UNCHANGED << pc, perPage, signRaised, built, images, error, exitStatus,
                  html_content, fileOpens, fileWrites, fileContent >>
  /\ UNCHANGED pageVars

\* One turn of the loop for an image: the record is appended, with the signed
\* URL or, when signing raises an Exception, with the fallback URL.
ProcessImage(bucket, limit) ==
  /\ pc = "list"
  /\ Len(listed) < limit
  /\ \E blob \in Unlisted(bucket), signed \in BOOLEAN :
       /\ IsImageName(blob.name)
       /\ listed' = Append(listed, blob)
       /\ signRaised' = IF signed THEN signRaised ELSE signRaised \cup { blob.name }
       /\ built' = Append(built, image_info(blob, signed))
  /\ UNCHANGED << pc, perPage, images, error, exitStatus,
                  html_content, fileOpens, fileWrites, fileContent >>
  /\ UNCHANGED pageVars

\* blob.reload() raises for an image: the exception leaves get_image_list.
ReloadRaises(bucket, limit) ==
  /\ pc = "list"
  /\ Len(listed) < limit
  /\ \E blob \in Unlisted(bucket) :
       /\ IsImageName(blob.name)
       /\ listed' = Append(listed, blob)
  /\ ExitOnException("reload")
  /\ UNCHANGED << perPage, signRaised, built, images,
                  html_content, fileOpens, fileWrites, fileContent >>
  /\ UNCHANGED pageVars

\* The iteration over list_blobs raises (the listing is fetched lazily).
ListingRaises ==
  /\ pc = "list"
  /\ ExitOnException("listing")
  /\ UNCHANGED << perPage, listed, signRaised, built, images,
                  html_content, fileOpens, fileWrites, fileContent >>
  /\ UNCHANGED pageVars

\* The listing ends: get_image_list sorts its list and returns it.
ReturnImages ==
  /\ pc = "list"
  /\ images' = SortByFilename(built)
  /\ pc' = "returned"
  /\ UNCHANGED << perPage, listed, signRaised, built, error, exitStatus,
                  html_content, fileOpens, fileWrites, fileContent >>
  /\ UNCHANGED pageVars

\* A bug main could have: an empty list is rendered like any other.
CheckImagesNoExit ==
  /\ pc = "returned"
  /\ pc' = "render"
  /\ UNCHANGED << perPage, listed, signRaised, built, images, error, exitStatus,
                  html_content, fileOpens, fileWrites, fileContent >>
  /\ UNCHANGED pageVars

\* if not images: print(...); sys.exit(1)
CheckImages ==
  /\ pc = "returned"
  /\ IF images = << >>
     THEN pc' = "exit" /\ exitStatus' = 1
     ELSE pc' = "render" /\ UNCHANGED exitStatus
  /\ UNCHANGED << perPage, listed, signRaised, built, images, error,
                  html_content, fileOpens, fileWrites, fileContent >>
  /\ UNCHANGED pageVars

\* generate_html_gallery(images, args.output, args.per_page, args.title) up to
\* template.render; args.per_page is read by nothing before this call.
RenderGallery(args) ==
  /\ pc = "render"
  /\ \E images_per_page \in args :
       /\ images_per_page # 0
       /\ perPage' = images_per_page
       /\ html_content' = RenderPage(images, images_per_page)
  /\ pc' = "write"
  /\ UNCHANGED << listed, signRaised, built, images, error, exitStatus,
                  fileOpens, fileWrites, fileContent >>
  /\ UNCHANGED pageVars

\* images_per_page is 0 (ZeroDivisionError), or the rendering raises.
RenderRaises(args) ==
  /\ pc = "render"
  /\ \E images_per_page \in args : perPage' = images_per_page
  /\ ExitOnException("render")
  /\ UNCHANGED << listed, signRaised, built, images,
                  html_content, fileOpens, fileWrites, fileContent >>
  /\ UNCHANGED pageVars

\* with open(output_file, 'w') as f: f.write(html_content); then the prints,
\* and main returns.
WriteFile ==
  /\ pc = "write"
  /\ fileOpens' = fileOpens + 1
  /\ fileWrites' = fileWrites + 1
  /\ fileContent' = html_content
  /\ pc' = "exit"
  /\ exitStatus' = 0
  /\ UNCHANGED << perPage, listed, signRaised, built, images, error, html_content >>
  /\ UNCHANGED pageVars

\* open(output_file, 'w') raises: no file is opened.
OpenRaises ==
  /\ pc = "write"
  /\ ExitOnException("open")
  /\ UNCHANGED << perPage, listed, signRaised, built, images,
                  html_content, fileOpens, fileWrites, fileContent >>
  /\ UNCHANGED pageVars

\* f.write raises after the file was opened (and so truncated).
WriteRaises ==
  /\ pc = "write"
  /\ fileOpens' = fileOpens + 1
  /\ ExitOnException("write")
  /\ UNCHANGED << perPage, listed, signRaised, built, images,
                  html_content, fileWrites, fileContent >>
  /\ UNCHANGED pageVars

Next ==
  \/ CreateGallery
  \/ CreateGalleryRaises
  \/ SkipBlob(Bucket, MaxBlobs)
  \/ ProcessImage(Bucket, MaxBlobs)
  \/ ReloadRaises(Bucket, MaxBlobs)
  \/ ListingRaises
  \/ ReturnImages
  \/ CheckImages
  \/ RenderGallery(PerPageArgs)
  \/ RenderRaises(PerPageArgs)
  \/ WriteFile
  \/ OpenRaises
  \/ WriteRaises

\* A run of main over a bucket of up to MaxBlobs objects.
Spec == Init /\ [][Next]_vars

(***************************************************************************)
(* Properties of get_image_list and of main, under Spec.                   *)
(***************************************************************************)
\* How many records of a list carry the object name.
RecordsNamed(records, name) ==
  Cardinality({ i \in 1..Len(records) : records[i].name = name })

\* The eight suffixes, as the property names them.
C1_Suffixes ==
  { << ".", "j", "p", "g" >>, << ".", "j", "p", "e", "g" >>, << ".", "p", "n", "g" >>, << ".", "g", "i", "f" >>,
    << ".", "b", "m", "p" >>, << ".", "w", "e", "b", "p" >>, << ".", "t", "i", "f", "f" >>, << ".", "s", "v", "g" >> }

\* The object name ends, letter case aside, with one of the suffixes.
C1_HasSuffix(name) ==
  \E suffix \in C1_Suffixes :
    /\ Len(suffix) <= Len(name)
    /\ \A k \in 1..Len(suffix) :
         LowerChar(name[Len(name) - Len(suffix) + k]) = suffix[k]

\* C1: what get_image_list returns holds exactly one record for each listed
\* blob whose full object name, lower-cased, ends with one of the eight image
\* suffixes, and no record for any other blob.
C1_OneRecordPerImageBlob ==
  pc = "returned" =>
    /\ \A i \in 1..Len(listed) :
         RecordsNamed(images, listed[i].name)
           = IF C1_HasSuffix(listed[i].name) THEN 1 ELSE 0
    /\ \A j \in 1..Len(images) :
         \E i \in 1..Len(listed) : listed[i].name = images[j].name

\* C1's case: an image blob with an upper-case suffix and a blob that is no
\* image were listed, and one record was returned.
C1_Witness ==
  /\ pc = "returned"
  /\ Len(images) = 1
  /\ images[1].name # Lower(images[1].name)
  /\ \E i \in 1..Len(listed) : ~C1_HasSuffix(listed[i].name)

\* a <= b in the order of strings.
C2_StrLeq(a, b) == a = b \/ StrLess(a, b)

\* The one-to-one maps of the positions 1..n.
C2_Permutations(n) ==
  { f \in [1..n -> 1..n] : \A i, j \in 1..n : f[i] = f[j] => i = j }

\* C2: the returned list is in ascending order of filename, is a permutation
\* of the records built during the listing, and keeps the listing order of
\* records with equal filenames.
C2_SortedByFilename ==
  pc = "returned" =>
    /\ Len(images) = Len(built)
    /\ \A i \in 1..(Len(images) - 1) :
         C2_StrLeq(images[i].filename, images[i + 1].filename)
    /\ \E f \in C2_Permutations(Len(built)) :
         /\ \A i \in 1..Len(images) : images[i] = built[f[i]]
         /\ \A i, j \in 1..Len(images) :
              (i < j /\ images[i].filename = images[j].filename) => f[i] < f[j]

\* C2's case: the sort has moved records.
C2_Witness ==
  /\ pc = "returned"
  /\ Len(images) >= 2
  /\ images # built

\* C4: a step in which generate_signed_url raises appends the blob's record,
\* with the URL https://storage.googleapis.com/<bucket_name>/<object name>,
\* and leaves the run in the listing loop.
C4_SigningFallback ==
  [][ signRaised' # signRaised =>
        /\ pc' = "list"
        /\ error' = "none"
        /\ Len(listed') = Len(listed) + 1
        /\ Len(built') = Len(built) + 1
        /\ SubSeq(built', 1, Len(built)) = built
        /\ built'[Len(built')].name = listed'[Len(listed')].name
        /\ signRaised' = signRaised \cup { listed'[Len(listed')].name }
        /\ built'[Len(built')].public_url
             = << "h", "t", "t", "p", "s", ":", "/", "/", "s", "t", "o", "r", "a", "g", "e", ".", "g", "o", "o", "g", "l", "e", "a", "p", "i", "s", ".", "c", "o", "m", "/" >>
                 \o bucket_name \o << "/" >> \o listed'[Len(listed')].name ]_vars

\* C4's case: signing raised for one image and the listing went on to the
\* next, whose URL was signed.
C4_Witness ==
  /\ Len(built) = 2
  /\ built[1].name \in signRaised
  /\ built[2].name \notin signRaised
  /\ built[1].public_url = FallbackUrl(built[1].name)

\* C7: the page's script obtains every image's filename and URL as they are
\* in the image's record, character for character.
C7_EmbeddedStringsRoundTrip ==
  fileWrites = 1 =>
    LET data == ParseImageData(fileContent.images_json)
    IN /\ Len(data) = Len(images)
       /\ \A i \in 1..Len(images) :
            /\ data[i].filename = images[i].filename
            /\ data[i].public_url = images[i].public_url

\* The steps before template.render has returned.
C8_BeforeRendered == { "client", "listing", "reload", "render" }

\* C8: the output file is written at most once, and only after
\* get_image_list has returned a list that is not empty; a run whose listing
\* has no image, or in which a step raises, ends with exit status 1; and no
\* file is written when there are no images or when the exception comes
\* before the rendering has completed.
C8_SingleFetchSingleRender ==
  /\ fileWrites <= 1
  /\ fileOpens <= 1
  /\ fileOpens >= 1 => (images # << >> /\ images = SortByFilename(built)
                         /\ html_content = RenderPage(images, perPage))
  /\ fileWrites = 0 <=> fileContent = NoFile
  /\ error # "none" => (pc = "exit" /\ exitStatus = 1)
  /\ (pc \in { "render", "write", "exit" } /\ images = << >>)
       => (pc = "exit" /\ exitStatus = 1 /\ fileOpens = 0 /\ fileWrites = 0)
  /\ error \in C8_BeforeRendered => (fileOpens = 0 /\ fileWrites = 0)
  /\ exitStatus = 0 => (pc = "exit" /\ fileWrites = 1 /\ error = "none")

\* C8's case: a run whose listing held blobs and no image has ended.
C8_Witness ==
  /\ pc = "exit"
  /\ error = "none"
  /\ Len(listed) = MaxBlobs
  /\ images = << >>
  /\ exitStatus = 1

(***************************************************************************)
(* get_image_list over a bucket that holds one image with a dated name.    *)
(***************************************************************************)
NextDate ==
  \/ CreateGallery
  \/ ProcessImage(DateBucket, 1)
  \/ ReturnImages

SpecDate == Init /\ [][NextDate]_vars

\* The days of the months of a common year.
C5_MonthDays == << 31, 28, 31, 30, 31, 30, 31, 31, 30, 31, 30, 31 >>

C5_Number(digits) ==
  IF Len(digits) = 4
  THEN 1000 * DigitVal(digits[1]) + 100 * DigitVal(digits[2])
         + 10 * DigitVal(digits[3]) + DigitVal(digits[4])
  ELSE 10 * DigitVal(digits[1]) + DigitVal(digits[2])

\* The 8 digits YYYYMMDD name a day of the calendar (of the years 1..9999).
C5_IsCalendarDate(d) ==
  LET year == C5_Number(SubSeq(d, 1, 4))
      month == C5_Number(SubSeq(d, 5, 6))
      day == C5_Number(SubSeq(d, 7, 8))
      leapDay == IF month = 2 /\ year % 4 = 0 /\ (year % 100 # 0 \/ year % 400 = 0)
                 THEN 1 ELSE 0
  IN /\ year >= 1
     /\ month \in 1..12
     /\ day >= 1
     /\ day <= C5_MonthDays[month] + leapDay

\* 'DT' and 8 digits stand at position i of the filename.
C5_TokenAt(filename, i) ==
  /\ i + 9 <= Len(filename)
  /\ filename[i] = "D"
  /\ filename[i + 1] = "T"
  /\ \A k \in 2..9 : filename[i + k] \in { "0", "1", "2", "3", "4", "5", "6", "7", "8", "9" }

\* What the property says of one record.
C5_DateOf(r) ==
  LET filename == r.filename
      tokens == { i \in 1..Len(filename) : C5_TokenAt(filename, i) }
  IN /\ \A k \in 1..Len(filename) : filename[k] # "/"
     /\ \E cut \in 0..Len(r.name) :
          /\ filename = SubSeq(r.name, cut + 1, Len(r.name))
          /\ cut > 0 => r.name[cut] = "/"
     /\ tokens = {} => (r.date_str = None /\ r.date_display = UnknownDate)
     /\ \A i \in tokens :
          (\A j \in tokens : i <= j) =>
            LET digits == SubSeq(filename, i + 2, i + 9)
            IN /\ r.date_str = digits
               /\ r.date_display =
                    IF C5_IsCalendarDate(digits)
                    THEN << digits[7], digits[8], " " >>
                           \o MonthName[C5_Number(SubSeq(digits, 5, 6))]
                    ELSE digits

\* C5: the date of a record is parsed from the basename of the object name:
\* date_str is the 8 digits after the first 'DT' that 8 digits follow, or None
\* with date_display 'Unknown Date' when there is none; date_display is the
\* day and the month name when the digits are a calendar date, and the digits
\* themselves when they are not.
C5_DateFromFilename ==
  pc = "returned" => \A i \in 1..Len(images) : C5_DateOf(images[i])

\* C5's case: a name with a DT token that is a digit short before the token
\* of a leap day.
C5_Witness ==
  /\ pc = "returned"
  /\ Len(images) = 1
  /\ images[1].date_display = << "2", "9", " ", "F", "e", "b", "r", "u", "a", "r", "y" >>
  /\ SubSeq(images[1].filename, 1, 2) = << "D", "T" >>
  /\ SubSeq(images[1].filename, 3, 10) # images[1].date_str

(***************************************************************************)
(* The script of the generated page.                                       *)
(***************************************************************************)
\* const imagesPerPage = {{ images_per_page }};
imagesPerPage == fileContent.images_per_page

\* Array.prototype.slice(start, end) with arguments that are integers: a
\* negative index counts from the end, and both are clamped to the array.
Slice(array, start, end) ==
  LET n == Len(array)
      from == IF start < 0 THEN (IF n + start < 0 THEN 0 ELSE n + start)
              ELSE (IF start > n THEN n ELSE start)
      to == IF end < 0 THEN (IF n + end < 0 THEN 0 ELSE n + end)
            ELSE (IF end > n THEN n ELSE end)
  IN SubSeq(array, from + 1, to)

\* A bug displayImages could have: the first page starts at imagesPerPage.
PageImagesFromPage(list, page) ==
  Slice(list, page * imagesPerPage, page * imagesPerPage + imagesPerPage)

\* displayImages: startIndex, endIndex and pageImages.
PageImages(list, page) ==
  LET startIndex == (page - 1) * imagesPerPage
      endIndex == startIndex + imagesPerPage
  IN Slice(list, startIndex, endIndex)

\* Math.ceil(totalItems / imagesPerPage) for imagesPerPage >= 1.
MathCeilDiv(totalItems, per) ==
  IF totalItems % per = 0 THEN totalItems \div per ELSE (totalItems \div per) + 1

\* Math.min
MathMin(a, b) == IF a < b THEN a ELSE b

\* displayImages(images, page): the gallery is emptied; with nothing to show
\* the 'no results' message is shown and the function returns; otherwise the
\* cards are added and updatePagination and updateResultCount run.  The
\* result count is the text 'Showing <start>-<end> of <total>'.
DisplayImages(d, list, page) ==
  LET pageImages == PageImages(list, page)
      totalPages == MathCeilDiv(Len(list), imagesPerPage)
  IN IF Len(pageImages) = 0
     THEN [ d EXCEPT !.gallery = << >>, !.noResults = TRUE ]
     ELSE [ d EXCEPT !.gallery = pageImages,
                     !.noResults = FALSE,
                     !.currentPageText = page,
                     !.totalPagesText = totalPages,
                     !.prevDisabled = (page <= 1),
                     !.nextDisabled = (page >= totalPages),
                     !.resultCount = << (page - 1) * imagesPerPage + 1,
                                        MathMin(page * imagesPerPage, Len(list)),
                                        Len(list) >> ]

\* The strings of a finite set in ascending order: Array.prototype.sort().
RECURSIVE SortedStrings(_)
SortedStrings(set) ==
  IF set = {} THEN << >>
  ELSE LET least == CHOOSE x \in set : \A y \in set : x = y \/ StrLess(x, y)
       IN << least >> \o SortedStrings(set \ { least })

\* populateDateFilter: after 'All Dates' (the value ''), one option for each
\* date_str of imageData that is not empty, in ascending order.  The labels of
\* the options are read by nothing and are not modelled.
DateOptions(data) ==
  << << >> >> \o SortedStrings({ data[i].date_str : i \in 1..Len(data) } \ { << >> })

\* The elements as the written page holds them, before its script runs.  The
\* result count is the text 'Showing <images_per_page> of <total_images>'.
StaticDom(page) ==
  [ searchInput |-> << >>, dateFilter |-> << >>, dateOptions |-> << << >> >>,
    gallery |-> << >>, noResults |-> FALSE,
    currentPageText |-> 1, totalPagesText |-> page.total_pages,
    prevDisabled |-> FALSE, nextDisabled |-> FALSE,
    resultCount |-> << page.images_per_page, page.total_images >> ]

\* The written page is opened: the script declares its variables and runs
\* populateDateFilter() and displayImages(imageData, 1).
LoadPage ==
  /\ pc = "exit"
  /\ exitStatus = 0
  /\ pc' = "page"
  /\ imageData' = ParseImageData(fileContent.images_json)
  /\ currentPage' = 1
  /\ filteredImages' = imageData'
  /\ dom' = DisplayImages([ StaticDom(fileContent) EXCEPT
                              !.dateOptions = DateOptions(imageData') ],
                          imageData', 1)
  /\ handler' = "load"
  /\ UNCHANGED direction
  /\ UNCHANGED << perPage, listed, signRaised, built, images, error, exitStatus,
                  html_content, fileOpens, fileWrites, fileContent >>

\* The texts a user types into the search box.
SearchTerms ==
  { << >>, << "d", "t" >>, << "I", "M", "G" >>, << "1", "_", "0" >>, << "z", "z" >> }

\* A bug the filter could have: the search term is not lower-cased.
MatchesCaseSensitive(image, term, date) ==
  /\ Includes(Lower(image.filename), term)
  /\ (date = << >> \/ image.date_str = date)

\* The predicate of imageData.filter in filterImages.
Matches(image, term, date) ==
  LET searchTerm == Lower(term)
      matchesSearch == Includes(Lower(image.filename), searchTerm)
      matchesDate == (date = << >> \/ image.date_str = date)
  IN matchesSearch /\ matchesDate

\* Array.prototype.filter.
RECURSIVE Filter(_, _, _)
Filter(array, term, date) ==
  IF array = << >> THEN << >>
  ELSE (IF Matches(Head(array), term, date) THEN << Head(array) >> ELSE << >>)
         \o Filter(Tail(array), term, date)

\* filterImages(), run by a key released in the search box or by a change of
\* the selected date: term and date are what the two controls then hold.
FilterImages ==
  /\ pc = "page"
  /\ \E term \in SearchTerms, k \in 1..Len(dom.dateOptions) :
       LET date == dom.dateOptions[k]
       IN /\ filteredImages' = Filter(imageData, term, date)
          /\ currentPage' = 1
          /\ dom' = DisplayImages([ dom EXCEPT !.searchInput = term,
                                               !.dateFilter = date ],
                                  filteredImages', 1)
  /\ handler' = "filter"
  /\ UNCHANGED direction
  /\ UNCHANGED << pc, imageData >>
  /\ UNCHANGED << perPage, listed, signRaised, built, images, error, exitStatus,
                  html_content, fileOpens, fileWrites, fileContent >>

\* A bug changePage could have: the new page is not checked against the
\* number of pages.
ChangePageNoUpperCheck ==
  /\ pc = "page"
  /\ \E d \in { 0 - 1, 1 } :
       LET newPage == currentPage + d
       IN /\ direction' = d
          /\ IF newPage >= 1
             THEN /\ currentPage' = newPage
                  /\ dom' = DisplayImages(dom, filteredImages, newPage)
             ELSE UNCHANGED << currentPage, dom >>
  /\ handler' = "change"
  /\ UNCHANGED << pc, imageData, filteredImages >>
  /\ UNCHANGED << perPage, listed, signRaised, built, images, error, exitStatus,
                  html_content, fileOpens, fileWrites, fileContent >>

\* changePage(direction), run by the Previous (-1) and Next (+1) buttons.
ChangePage ==
  /\ pc = "page"
  /\ \E d \in { 0 - 1, 1 } :
       LET totalPages == MathCeilDiv(Len(filteredImages), imagesPerPage)
           newPage == currentPage + d
       IN /\ direction' = d
          /\ IF newPage >= 1 /\ newPage <= totalPages
             THEN /\ currentPage' = newPage
                  /\ dom' = DisplayImages(dom, filteredImages, newPage)
             ELSE UNCHANGED << currentPage, dom >>
  /\ handler' = "change"
  /\ UNCHANGED << pc, imageData, filteredImages >>
  /\ UNCHANGED << perPage, listed, signRaised, built, images, error, exitStatus,
                  html_content, fileOpens, fileWrites, fileContent >>

(***************************************************************************)
(* generate_html_gallery called with a list of records, and the page it    *)
(* writes opened in a browser.                                             *)
(***************************************************************************)
\* The name of the k-th object of a gallery: every fourth has no date and an
\* upper-case name, the others one of three dates.
GalleryName(k) ==
  IF k % 4 = 0
  THEN << "I", "M", "G", "_" >> \o Pad2(k) \o << ".", "P", "N", "G" >>
  ELSE << "D", "T", "2", "0", "2", "5", "0", "8" >> \o Pad2((k % 3) + 1) \o << "_" >> \o Pad2(k) \o << ".", "j", "p", "g" >>

GalleryBlob(k) ==
  [ name |-> GalleryName(k), size |-> 1024 * k, content_type |-> "image/jpeg" ]

\* What get_image_list returns for a bucket of the first n such objects.
Gallery(n) == SortByFilename([ k \in 1..n |-> image_info(GalleryBlob(k), k % 2 = 0) ])

\* Records for lists in any order: the images of three of Bucket's objects.
LooseRecords ==
  { image_info(b, TRUE) :
      b \in { x \in Bucket : x.name \in { << "b", ".", "j", "p", "g" >>, << "d", "/", "a", ".", "J", "P", "G" >>,
                                          << "D", "T", "2", "0", "2", "5", "0", "8", "0", "1", "_", "x", ".", "g", "i", "f" >> } } }

\* The lists generate_html_gallery is called with: the galleries, and the
\* lists of two records in any order.
RenderInputs ==
  { Gallery(n) : n \in 0..MaxImages } \cup [ 1..2 -> LooseRecords ]

InitPage ==
  /\ pc = "render"
  /\ perPage = 0
  /\ listed = << >>
  /\ signRaised = {}
  /\ built = << >>
  /\ images \in RenderInputs
  /\ error = "none"
  /\ exitStatus = 0 - 1
  /\ html_content = NoFile
  /\ fileOpens = 0
  /\ fileWrites = 0
  /\ fileContent = NoFile
  /\ imageData = << >>
  /\ currentPage = 1
  /\ filteredImages = << >>
  /\ dom = NoDom
  /\ handler = "none"
  /\ direction = 0

NextPage ==
  \/ RenderGallery(1..MaxPerPage)
  \/ WriteFile
  \/ LoadPage
  \/ FilterImages
  \/ ChangePage

\* The page of a gallery of up to MaxImages images, MaxPerPage to a page.
SpecPage == InitPage /\ [][NextPage]_vars

(***************************************************************************)
(* Properties of generate_html_gallery and of the page, under SpecPage.    *)
(***************************************************************************)
\* C3: for n >= 0 images and images_per_page >= 1 the page count that
\* generate_html_gallery computes is the least p with
\* p * images_per_page >= n, which is 0 for n = 0, and it is the page count
\* the page's script computes for the unfiltered list.
C3_PageCountIsCeiling ==
  (pc \in { "write", "exit", "page" } /\ perPage >= 1) =>
    LET n == Len(images)
        pages == html_content.total_pages
    IN /\ pages >= 0
       /\ pages * perPage >= n
       /\ \A p \in 0..(n + 1) : p * perPage >= n => pages <= p
       /\ n = 0 => pages = 0
       /\ pc = "page" => MathCeilDiv(Len(imageData), imagesPerPage) = pages
       /\ (pc = "page" /\ handler = "load") => dom.totalPagesText = pages

\* C3's case: the page of a gallery whose last page is not full is open.
C3_Witness ==
  /\ pc = "page"
  /\ handler = "load"
  /\ Len(images) = MaxImages
  /\ perPage = MaxPerPage
  /\ Len(images) % perPage # 0
  /\ html_content.total_pages * perPage > Len(images)

\* C6: the page rendered for a list of records embeds one entry for each
\* record, in the order of the list, and carries the length of the list as the
\* total image count, the images_per_page argument as the page size and the
\* computed page count as the total pages.
C6_PageMetadata ==
  pc \in { "write", "exit", "page" } =>
    LET data == ParseImageData(html_content.images_json)
    IN /\ Len(data) = Len(images)
       /\ \A i \in 1..Len(images) :
            /\ data[i].size = images[i].size
            /\ data[i].date_display = images[i].date_display
            /\ data[i].date_str
                 = IF images[i].date_str = None THEN << >> ELSE images[i].date_str
       /\ html_content.total_images = Len(images)
       /\ html_content.images_per_page = perPage
       /\ html_content.total_pages = (Len(images) + perPage - 1) \div perPage
       /\ pc # "write" => fileContent = html_content

\* C6's case: a page was rendered for a list that is not in filename order.
C6_Witness ==
  /\ pc = "write"
  /\ Len(images) = 2
  /\ images[1].size # images[2].size
  /\ StrLess(images[2].filename, images[1].filename)
  /\ perPage = 1

\* One character in lower case, as the property compares filenames and terms.
C9_Fold(c) ==
  IF c \in { "A", "B", "C", "D", "E", "F", "G", "H", "I", "J", "K", "L", "M",
             "N", "O", "P", "Q", "R", "S", "T", "U", "V", "W", "X", "Y", "Z" }
  THEN Chr(Ord(c) + 32) ELSE c

\* The lower-cased filename contains the lower-cased term.
C9_Contains(filename, term) ==
  \E offset \in 0..Len(filename) :
    /\ offset + Len(term) <= Len(filename)
    /\ \A k \in 1..Len(term) : C9_Fold(filename[offset + k]) = C9_Fold(term[k])

\* The positions of imageData that the filter selects.
C9_Selected ==
  { i \in 1..Len(imageData) :
      /\ C9_Contains(imageData[i].filename, dom.searchInput)
      /\ (dom.dateFilter = << >> \/ imageData[i].date_str = dom.dateFilter) }

\* C9: after filterImages, filteredImages is the subsequence of imageData, in
\* its order, of the images whose lower-cased filename contains the
\* lower-cased search term and whose date_str is the selected date (any date
\* for 'All Dates'); imageData is what the page embeds; the current page is 1.
C9_FilterSelectsSubsequence ==
  (pc = "page" /\ handler = "filter") =>
    /\ imageData = ParseImageData(fileContent.images_json)
    /\ currentPage = 1
    /\ Len(filteredImages) = Cardinality(C9_Selected)
    /\ \A k \in 1..Len(filteredImages) :
         \E i \in C9_Selected :
           /\ Cardinality({ j \in C9_Selected : j <= i }) = k
           /\ filteredImages[k] = imageData[i]

\* C9's case: an upper-case term and a date have selected some images of the
\* gallery, not all, while a later page than the first had been shown.
C9_Witness ==
  /\ pc = "page"
  /\ handler = "filter"
  /\ dom.searchInput # Lower(dom.searchInput)
  /\ Len(filteredImages) >= 1
  /\ Len(filteredImages) < Len(imageData)
  /\ \E i \in 1..Len(imageData) :
       /\ imageData[i].filename # Lower(imageData[i].filename)
       /\ filteredImages[1] = imageData[i]

\* The 0-based positions shown on page p of a list of n images.
C10_Shown(n, p) ==
  LET positions == PageImages([ i \in 1..n |-> i - 1 ], p)
  IN { positions[k] : k \in 1..Len(positions) }

\* C10: for images_per_page >= 1, page p of a filtered list of n images shows
\* the items at the 0-based positions (p-1)*images_per_page up to
\* min(p*images_per_page, n)-1, in order; over the pages
\* 1..ceil(n/images_per_page) every image is shown on exactly one page, and
\* every page but the last shows images_per_page images.
C10_PagesPartitionTheList ==
  (pc = "page" /\ imagesPerPage >= 1) =>
    LET n == Len(filteredImages)
        per == imagesPerPage
        last == (n + per - 1) \div per
        upTo(p) == IF p * per < n THEN p * per ELSE n
    IN /\ currentPage \in 1..last =>
            /\ Len(dom.gallery) = upTo(currentPage) - (currentPage - 1) * per
            /\ \A k \in 1..Len(dom.gallery) :
                 dom.gallery[k] = filteredImages[(currentPage - 1) * per + k]
       /\ \A p \in 1..last :
            /\ PageImages(filteredImages, p)
                 = [ k \in 1..(upTo(p) - (p - 1) * per) |->
                       filteredImages[(p - 1) * per + k] ]
            /\ C10_Shown(n, p) = { i \in 0..(n - 1) : (p - 1) * per <= i /\ i <= upTo(p) - 1 }
            /\ p < last => Len(PageImages(filteredImages, p)) = per
       /\ \A i \in 0..(n - 1) :
            Cardinality({ p \in 1..last : i \in C10_Shown(n, p) }) = 1

\* C10's case: the last page of a filtered list is shown, and it is not full.
C10_Witness ==
  /\ pc = "page"
  /\ handler = "change"
  /\ Len(filteredImages) < Len(imageData)
  /\ currentPage >= 2
  /\ currentPage * imagesPerPage > Len(filteredImages)
  /\ Len(dom.gallery) >= 1
  /\ Len(dom.gallery) < imagesPerPage

\* The number of pages of a list of n images, per to a page.
C11_Pages(n, per) == (n + per - 1) \div per

\* C11: for images_per_page >= 1, after any sequence of changePage(-1),
\* changePage(+1) and filterImages calls the current page p satisfies
\* 1 <= p <= max(1, ceil(n/images_per_page)) for the n images of the filtered
\* list, and a changePage call whose target page is outside
\* 1..ceil(n/images_per_page) changes neither the current page nor the images
\* displayed.
C11_CurrentPageInRange ==
  [][ (pc' = "page" /\ imagesPerPage' >= 1) =>
        LET last == C11_Pages(Len(filteredImages'), imagesPerPage')
        IN /\ currentPage' >= 1
           /\ currentPage' <= (IF last > 1 THEN last ELSE 1)
           /\ (pc = "page" /\ handler' = "change") =>
                LET target == currentPage + direction'
                    before == C11_Pages(Len(filteredImages), imagesPerPage)
                IN /\ direction' \in { 0 - 1, 1 }
                   /\ filteredImages' = filteredImages
                   /\ (target < 1 \/ target > before) =>
                        /\ currentPage' = currentPage
                        /\ dom'.gallery = dom.gallery
                        /\ dom' = dom
                   /\ (target >= 1 /\ target <= before) => currentPage' = target ]_vars

\* C11's case: on the only page of a filtered list, changePage(+1) was called.
C11_Witness ==
  /\ pc = "page"
  /\ handler = "change"
  /\ direction = 1
  /\ currentPage = 1
  /\ imagesPerPage >= 2
  /\ Len(filteredImages) >= 1
  /\ Len(filteredImages) < Len(imageData)
  /\ Len(dom.gallery) = Len(filteredImages)

\* C12: after every display the indicators describe the filtered list and the
\* current page: the total shown is ceil(n/images_per_page), the result count
\* ends in 'of n', Previous is disabled iff the current page is <= 1, Next iff
\* it is >= the total, and 'no results' is visible iff the current page shows
\* no image.  Stated for the pages of lists that are not empty, the pages that
\* main writes.
C12_IndicatorsDescribeTheList ==
  (pc = "page" /\ Len(imageData) >= 1) =>
    LET n == Len(filteredImages)
        total == (n + imagesPerPage - 1) \div imagesPerPage
    IN /\ dom.totalPagesText = total
       /\ dom.resultCount[Len(dom.resultCount)] = n
       /\ dom.prevDisabled <=> currentPage <= 1
       /\ dom.nextDisabled <=> currentPage >= total
       /\ dom.noResults <=> dom.gallery = << >>
       /\ dom.gallery = << >> <=> (currentPage - 1) * imagesPerPage >= n

====
